---- MODULE Spec2Model ----
(***************************************************************************)
(* The inventory store of src/inventory_system.py: the process-wide dict   *)
(* stock_data, the JSON file it is saved to and loaded from, and one       *)
(* action per function of the module.                                      *)
(*                                                                         *)
(* Python values are records [k, n]:                                       *)
(*   k = "int"    the integer n                                            *)
(*   k = "float"  the finite float n/2 (halves are exact in binary)        *)
(*   k = "nan"    float("nan")             k = "inf"   float("inf")        *)
(*   k = "big"    a positive integer beyond the float range (10**400)      *)
(*   k = "negbig" the negative of such an integer (only as a difference)   *)
(*   k = "str"    the string holding the decimal literal of n ("1")        *)
(*   k = "bad"    a string that is no integer literal ("ten")              *)
(*   k = "none"   None                                                     *)
(* The result of an operation that may raise is [raised, v]: raised is     *)
(* "none" or the name of the exception.                                    *)
(***************************************************************************)
EXTENDS Integers, Sequences, FiniteSets

VARIABLES stock_data, file, last, prev

vars == <<stock_data, file, last, prev>>

\* ---------------------------------------------------------------- bounds

\* Largest magnitude of an integer quantity kept in the mapping.
MaxQty == 2
\* Largest magnitude, in halves, of a float quantity kept in the mapping.
MaxHalves == 1

\* ---------------------------------------------------------------- values

PyV(k, n) == [k |-> k, n |-> n]
IntV(n) == PyV("int", n)
FloatV(h) == PyV("float", h)
NaN == PyV("nan", 0)
Inf == PyV("inf", 0)
Big == PyV("big", 0)
NegBig == PyV("negbig", 0)
StrV(n) == PyV("str", n)
Bad == PyV("bad", 0)
None == PyV("none", 0)

Ok(v) == [raised |-> "none", v |-> v]
Raise(e) == [raised |-> e, v |-> None]

\* isinstance(item, str): an item is [str, name]; a non-string argument
\* (123) has str = FALSE.
IsStr(item) == item.str

\* isinstance(qty, (int, float))
IsNumeric(v) == v.k \in {"int", "float", "nan", "inf", "big"}

\* h/2 truncated toward zero, as int() does on a float.
Trunc(h) == IF h >= 0 THEN h \div 2 ELSE -((-h) \div 2)

\* int(v)
PyInt(v) ==
    CASE v.k = "int" -> Ok(v)
      [] v.k = "big" -> Ok(v)
      [] v.k = "negbig" -> Ok(v)
      [] v.k = "float" -> Ok(IntV(Trunc(v.n)))
      [] v.k = "nan" -> Raise("ValueError")
      [] v.k = "inf" -> Raise("OverflowError")
      [] v.k = "str" -> Ok(IntV(v.n))
      [] v.k = "bad" -> Raise("ValueError")
      [] OTHER -> Raise("TypeError")

\* a + b for a stored quantity (or the default 0) a and an argument b.
Plus(a, b) ==
    CASE ~IsNumeric(a) \/ ~IsNumeric(b) -> Raise("TypeError")
      [] a.k = "nan" \/ b.k = "nan" -> Ok(NaN)
      [] a.k = "big" /\ b.k = "big" -> Ok(Big)
      [] a.k = "big" \/ b.k = "big" ->
            IF a.k = "int" \/ b.k = "int" THEN Ok(Big) ELSE Raise("OverflowError")
      [] a.k = "inf" \/ b.k = "inf" -> Ok(Inf)
      [] a.k = "int" /\ b.k = "int" -> Ok(IntV(a.n + b.n))
      [] a.k = "int" /\ b.k = "float" -> Ok(FloatV(2 * a.n + b.n))
      [] a.k = "float" /\ b.k = "int" -> Ok(FloatV(a.n + 2 * b.n))
      [] OTHER -> Ok(FloatV(a.n + b.n))

\* a - c for a stored quantity a and c = int(qty), an integer.
Minus(a, c) ==
    CASE a.k = "int" /\ c.k = "int" -> Ok(IntV(a.n - c.n))
      [] a.k = "int" /\ c.k = "big" -> Ok(NegBig)
      [] c.k = "big" -> Raise("OverflowError")
      [] a.k = "float" -> Ok(FloatV(a.n - 2 * c.n))
      [] OTHER -> Ok(a)

\* a <= 0
NonPositive(a) ==
    CASE a.k = "int" -> a.n <= 0
      [] a.k = "float" -> a.n <= 0
      [] a.k = "negbig" -> TRUE
      [] OTHER -> FALSE

\* a < t for a stored quantity a and an integer t
LessThan(a, t) ==
    CASE a.k = "nan" -> FALSE
      [] a.k = "inf" -> FALSE
      [] t.k = "big" -> TRUE
      [] a.k = "int" -> a.n < t.n
      [] OTHER -> a.n < 2 * t.n

\* ------------------------------------------------------------- the dict

\* stock_data is a dict: its entries in insertion order, keys unique.
Keys(s) == {s[i].key : i \in DOMAIN s}
Has(s, key) == key \in Keys(s)
Index(s, key) == CHOOSE i \in DOMAIN s : s[i].key = key
Get(s, key, default) == IF Has(s, key) THEN s[Index(s, key)].val ELSE default
Put(s, key, v) ==
    IF Has(s, key)
    THEN [s EXCEPT ![Index(s, key)].val = v]
    ELSE Append(s, [key |-> key, val |-> v])
Del(s, key) == SelectSeq(s, LAMBDA e : e.key # key)

\* Every finite quantity of the mapping is within the bounds of the model.
InBounds(s) ==
    \A i \in DOMAIN s :
        /\ s[i].val.k = "int" => (s[i].val.n <= MaxQty /\ -s[i].val.n <= MaxQty)
        /\ s[i].val.k = "float" => (s[i].val.n <= MaxHalves /\ -s[i].val.n <= MaxHalves)

\* ------------------------------------------------------------- the file

\* The file at the path: its condition and, for a JSON object, its members
\* in order, each [key, tok] with tok a JSON token [j, n].
File(kind, entries) == [kind |-> kind, entries |-> entries]
Tok(j, n) == [j |-> j, n |-> n]
Member(key, tok) == [key |-> key, tok |-> tok]

\* json.dump of one quantity
JsonDump(v) ==
    CASE v.k = "int" -> Tok("integer", v.n)
      [] v.k = "float" -> Tok("real", v.n)
      [] v.k = "nan" -> Tok("NaN", 0)
      [] v.k = "inf" -> Tok("Infinity", 0)
      [] OTHER -> Tok("null", 0)

\* json.load of one member's value
JsonLoad(tok) ==
    CASE tok.j = "integer" -> IntV(tok.n)
      [] tok.j = "real" -> FloatV(tok.n)
      [] tok.j = "NaN" -> NaN
      [] tok.j = "Infinity" -> Inf
      [] tok.j = "numstring" -> StrV(tok.n)
      [] tok.j = "badstring" -> Bad
      [] tok.j = "array" -> PyV("list", 0)
      [] OTHER -> None

\* json.dump(stock_data, ...): the object's members in the dict's order.
Dump(s) == [i \in DOMAIN s |-> Member(s[i].key, JsonDump(s[i].val))]

\* ---------------------------------------------------------- the functions

\* The threshold check_low_items falls back to.
DefaultThreshold == 5

Outcome(s, raised, logged) == [stock |-> s, raised |-> raised, logged |-> logged]

\* The type check with "and" for "or": a call is rejected only when both
\* arguments are of the wrong type.
AddRejectsOnlyBoth(item, qty) == ~IsStr(item) /\ ~IsNumeric(qty)

\* add_item's type check
AddRejects(item, qty) == ~IsStr(item) \/ ~IsNumeric(qty)

\* add_item
AddResult(s, item, qty) ==
    IF AddRejects(item, qty)
    THEN Outcome(s, "none", {"warning"})
    ELSE LET r == Plus(Get(s, item.name, IntV(0)), qty)
         IN  IF r.raised # "none"
             THEN Outcome(s, r.raised, {})
             ELSE Outcome(Put(s, item.name, r.v), "none", {"info"})

\* A missing item taken as one of quantity 0, as add_item takes it.
RemoveMissingFromZero(s, key, c) == Put(s, key, Minus(IntV(0), c).v)

\* remove_item on an item that is no key of the mapping
RemoveMissing(s, key, c) == s

\* remove_item
RemoveResult(s, item, qty) ==
    IF ~IsStr(item)
    THEN Outcome(s, "none", {"warning"})
    ELSE LET c == PyInt(qty)
         IN  IF c.raised \in {"TypeError", "ValueError"}
             THEN Outcome(s, "none", {"warning"})
             ELSE IF c.raised # "none"
             THEN Outcome(s, c.raised, {})
             ELSE IF Has(s, item.name)
             THEN LET r == Minus(Get(s, item.name, IntV(0)), c.v)
                  IN  IF r.raised # "none"
                      THEN Outcome(s, r.raised, {})
                      ELSE IF NonPositive(r.v)
                      THEN Outcome(Del(s, item.name), "none", {"info"})
                      ELSE Outcome(Put(s, item.name, r.v), "none", {})
             ELSE Outcome(RemoveMissing(s, item.name, c.v), "none", {"warning"})

\* get_qty
GetQtyResult(s, item) ==
    IF ~IsStr(item)
    THEN [raised |-> "none", logged |-> {"warning"}, ret |-> 0]
    ELSE LET c == PyInt(Get(s, item.name, IntV(0)))
         IN  [raised |-> c.raised, logged |-> {}, ret |-> c.v.n]

\* The loop of load_data over the parsed object's members.
RECURSIVE LoadEntries(_, _)
LoadEntries(entries, acc) ==
    IF entries = <<>>
    THEN acc
    ELSE LET e == Head(entries)
             c == PyInt(JsonLoad(e.tok))
         IN  IF c.raised = "none"
             THEN LoadEntries(Tail(entries), [acc EXCEPT !.stock = Put(@, e.key, c.v)])
             ELSE IF c.raised \in {"TypeError", "ValueError"}
             THEN LoadEntries(Tail(entries), [acc EXCEPT !.logged = @ \cup {"warning"}])
             ELSE [acc EXCEPT !.raised = c.raised]

\* load_data
LoadResult(s, f) ==
    CASE f.kind = "missing" -> Outcome(<<>>, "none", {"info"})
      [] f.kind \in {"unreadable", "unparsable"} -> Outcome(<<>>, "none", {"error"})
      [] f.kind = "undecodable" -> Outcome(s, "UnicodeDecodeError", {})
      [] f.kind = "array" -> Outcome(<<>>, "none", {"warning"})
      [] OTHER -> LoadEntries(f.entries, Outcome(<<>>, "none", {}))

\* The mapping cleared when the write fails, as load_data clears it when
\* the read fails.
SaveStockClearedOnError(s, io) == IF io = "ok" THEN s ELSE <<>>

\* stock_data after save_data: json.dump reads it and nothing assigns to it.
SaveStock(s, io) == s

\* save_data; io is what the file system does: "ok", "open_fails" (open
\* raises OSError) or "write_fails" (a write raises OSError after open
\* truncated the file).

SaveResult(s, f, io) ==
    CASE io = "ok" ->
            [stock |-> SaveStock(s, io), file |-> File("object", Dump(s)), raised |-> "none", logged |-> {"info"}]
      [] io = "open_fails" ->
            [stock |-> SaveStock(s, io), file |-> f, raised |-> "none", logged |-> {"error"}]
      [] OTHER ->
            [stock |-> SaveStock(s, io), file |-> File("unparsable", <<>>), raised |-> "none", logged |-> {"error"}]

\* The keys of the entries of s, in order.
KeysOf(s) == [i \in DOMAIN s |-> s[i].key]

\* check_low_items
LowResult(s, threshold) ==
    LET c == PyInt(threshold)
    IN  IF c.raised \in {"TypeError", "ValueError"}
        THEN [raised |-> "none", logged |-> {"warning", "info"},
              low |-> KeysOf(SelectSeq(s, LAMBDA e : LessThan(e.val, IntV(DefaultThreshold))))]
        ELSE IF c.raised # "none"
        THEN [raised |-> c.raised, logged |-> {}, low |-> <<>>]
        ELSE [raised |-> "none", logged |-> {"info"},
              low |-> KeysOf(SelectSeq(s, LAMBDA e : LessThan(e.val, c.v)))]

\* ---------------------------------------------------------------- inputs

Item(name) == [str |-> TRUE, name |-> name]
NotAString == [str |-> FALSE, name |-> "123"]
NoItem == [str |-> FALSE, name |-> ""]
StrItems == {Item("a"), Item("b")}

\* The calls of add_item: (item, qty) pairs.  Item "a" takes every kind of
\* quantity, item "b" integers only.
AddCalls ==
    ({Item("a")} \X {IntV(0), IntV(1), FloatV(-1), NaN, Inf, Bad})
        \cup ({Item("b")} \X {IntV(1), None})
        \cup {<<NotAString, IntV(1)>>, <<NotAString, Bad>>}

RemoveCalls ==
    (StrItems \X {IntV(1), IntV(2), Big, Inf, Bad, StrV(1)})
        \cup {<<NotAString, IntV(1)>>}

Thresholds == {IntV(1), IntV(DefaultThreshold), Inf, None}

InitialFiles ==
    { File("missing", <<>>), File("unreadable", <<>>), File("undecodable", <<>>),
      File("unparsable", <<>>), File("array", <<>>),
      File("object", <<Member("a", Tok("integer", 2)), Member("b", Tok("integer", 1))>>),
      File("object", <<Member("a", Tok("badstring", 0)), Member("b", Tok("integer", 1))>>),
      File("object", <<Member("a", Tok("Infinity", 0)), Member("b", Tok("integer", 1))>>),
      File("object", <<Member("b", Tok("numstring", 1)), Member("a", Tok("null", 0))>>) }

\* ------------------------------------------------------------ the machine

\* last: the call just made (its name, arguments and what it returned,
\* raised and logged); prev: stock_data as that call found it.
Call(op, item, arg) ==
    [op |-> op, item |-> item, arg |-> arg, raised |-> "none", logged |-> {},
     audit |-> FALSE, ret |-> 0, low |-> <<>>, printed |-> <<>>,
     wrote |-> FALSE, roundTrip |-> FALSE]

Init ==
    /\ stock_data = <<>>
    /\ file \in InitialFiles
    /\ last = Call("start", NoItem, None)
    /\ prev = <<>>

add_item ==
    \E c \in AddCalls :
        LET r == AddResult(stock_data, c[1], c[2])
        IN  /\ InBounds(r.stock)
            /\ stock_data' = r.stock
            /\ prev' = stock_data
            /\ last' = [Call("add_item", c[1], c[2]) EXCEPT
                            !.raised = r.raised, !.logged = r.logged,
                            !.audit = (r.logged = {"info"})]
            /\ UNCHANGED file

remove_item ==
    \E c \in RemoveCalls :
        LET r == RemoveResult(stock_data, c[1], c[2])
        IN  /\ InBounds(r.stock)
            /\ stock_data' = r.stock
            /\ prev' = stock_data
            /\ last' = [Call("remove_item", c[1], c[2]) EXCEPT
                            !.raised = r.raised, !.logged = r.logged]
            /\ UNCHANGED file

get_qty ==
    \E item \in StrItems \cup {NotAString} :
        LET r == GetQtyResult(stock_data, item)
        IN  /\ prev' = stock_data
            /\ last' = [Call("get_qty", item, None) EXCEPT
                            !.raised = r.raised, !.logged = r.logged, !.ret = r.ret]
            /\ UNCHANGED <<stock_data, file>>

load_data ==
    LET r == LoadResult(stock_data, file)
    IN  /\ InBounds(r.stock)
        /\ stock_data' = r.stock
        /\ prev' = stock_data
        /\ last' = [Call("load_data", NoItem, None) EXCEPT
                        !.raised = r.raised, !.logged = r.logged,
                        !.roundTrip = (last.op = "save_data" /\ last.wrote)]
        /\ UNCHANGED file

save_data ==
    \E io \in {"ok", "open_fails", "write_fails"} :
        LET r == SaveResult(stock_data, file, io)
        IN  /\ stock_data' = r.stock
            /\ file' = r.file
            /\ prev' = stock_data
            /\ last' = [Call("save_data", NoItem, None) EXCEPT
                            !.raised = r.raised, !.logged = r.logged,
                            !.wrote = (io = "ok")]

print_data ==
    /\ prev' = stock_data
    /\ last' = [Call("print_data", NoItem, None) EXCEPT
                    !.logged = {"info"}, !.printed = stock_data]
    /\ UNCHANGED <<stock_data, file>>

check_low_items ==
    \E threshold \in Thresholds :
        LET r == LowResult(stock_data, threshold)
        IN  /\ prev' = stock_data
            /\ last' = [Call("check_low_items", NoItem, threshold) EXCEPT
                            !.raised = r.raised, !.logged = r.logged, !.low = r.low]
            /\ UNCHANGED <<stock_data, file>>

Next ==
    \/ add_item
    \/ remove_item
    \/ get_qty
    \/ load_data
    \/ save_data
    \/ print_data
    \/ check_low_items

Spec == Init /\ [][Next]_vars

\* The dict's keys are unique and its finite quantities within the bounds.
TypeOK ==
    /\ \A i, j \in DOMAIN stock_data : stock_data[i].key = stock_data[j].key => i = j
    /\ InBounds(stock_data)

\* ----------------------------------------------------------------- claims

Key == last.item.name

\* q > 0 for a stored quantity q
Positive(q) ==
    CASE q.k = "int" -> q.n > 0
      [] q.k = "float" -> q.n > 0
      [] q.k = "inf" -> TRUE
      [] OTHER -> FALSE

\* Every key but k holds in s what it holds in t, and is in s iff in t.
OthersUnchanged(s, t, k) ==
    \A key \in (Keys(s) \cup Keys(t)) \ {k} :
        Has(s, key) /\ Has(t, key) /\ Get(s, key, None) = Get(t, key, None)

\* C1: in every reachable state every key of the mapping has a quantity > 0.
C1_QuantitiesPositive ==
    \A i \in DOMAIN stock_data : Positive(stock_data[i].val)

\* C2: after add_item(item, qty) with a string item and an integer qty >= 0,
\* get_qty(item) is get_qty(item) before the call plus qty, and every other
\* key is unchanged.
C2_AddIncrements ==
    (last.op = "add_item" /\ IsStr(last.item) /\ last.arg.k = "int" /\ last.arg.n >= 0)
        => LET before == GetQtyResult(prev, last.item)
               after == GetQtyResult(stock_data, last.item)
           IN  /\ before.raised = "none"
               /\ after.raised = "none"
               /\ after.ret = before.ret + last.arg.n
               /\ OthersUnchanged(stock_data, prev, Key)

\* q - c as a number, for a stored quantity q and an integer c (no finite
\* quantity exceeds an integer beyond the float range).
Difference(q, c) ==
    CASE q.k = "nan" -> NaN
      [] q.k = "inf" -> Inf
      [] c.k = "big" -> NegBig
      [] q.k = "int" -> IntV(q.n - c.n)
      [] OTHER -> FloatV(q.n - 2 * c.n)

\* C3: after remove_item(item, qty) on a present item of quantity q with an
\* integer qty, the item holds q - qty if that is > 0 and is absent if it is
\* <= 0; it never stays with a quantity <= 0, and no other key changes.
C3_RemoveDecrements ==
    (last.op = "remove_item" /\ IsStr(last.item) /\ Has(prev, Key)
            /\ last.arg.k \in {"int", "big"})
        => LET d == Difference(Get(prev, Key, None), last.arg)
           IN  /\ Positive(d) => (Has(stock_data, Key) /\ Get(stock_data, Key, None) = d)
               /\ NonPositive(d) => ~Has(stock_data, Key)
               /\ Has(stock_data, Key) => ~NonPositive(Get(stock_data, Key, None))
               /\ OthersUnchanged(stock_data, prev, Key)

\* C4: load_data right after a save_data that wrote the file leaves the
\* mapping as it was before the save: the same keys, each quantity the
\* integer its saved quantity coerces to.
C4_RoundTrip ==
    (last.op = "load_data" /\ last.roundTrip)
        => /\ Keys(stock_data) = Keys(prev)
           /\ \A key \in Keys(prev) :
                  LET c == PyInt(Get(prev, key, None))
                  IN  c.raised = "none" /\ Get(stock_data, key, None) = c.v

\* C5: add_item with a non-string item or a non-numeric qty, and remove_item
\* with a non-string item or a qty that does not coerce to an integer, leave
\* the mapping exactly as it was.
C5_InvalidCallsChangeNothing ==
    (\/ last.op = "add_item" /\ (~IsStr(last.item) \/ ~IsNumeric(last.arg))
     \/ last.op = "remove_item" /\ (~IsStr(last.item) \/ PyInt(last.arg).raised # "none"))
        => stock_data = prev

\* add_item(123, "ten") was called on a mapping of two items.
C5_InvalidAddOnStockedMapping ==
    /\ last.op = "add_item"
    /\ ~IsStr(last.item)
    /\ last.arg = Bad
    /\ Len(stock_data) = 2

\* C6: remove_item of a string item that is no key of the mapping leaves the
\* mapping as it was, whatever qty is, and the item is still no key of it (so
\* the same holds of the call repeated).
C6_RemoveMissingIsNoOp ==
    (last.op = "remove_item" /\ IsStr(last.item) /\ ~Has(prev, Key))
        => (stock_data = prev /\ ~Has(stock_data, Key))

\* remove_item(item, 1) was called for an item missing from a mapping that
\* holds another.
C6_RemovedMissingItem ==
    /\ last.op = "remove_item"
    /\ IsStr(last.item)
    /\ ~Has(prev, Key)
    /\ last.arg = IntV(1)
    /\ prev # <<>>

\* The members of a JSON object whose value coerces to an integer, each key
\* holding that integer.
RECURSIVE Coercible(_, _)
Coercible(entries, acc) ==
    IF entries = <<>>
    THEN acc
    ELSE LET c == PyInt(JsonLoad(Head(entries).tok))
         IN  Coercible(Tail(entries),
                       IF c.raised = "none" THEN Put(acc, Head(entries).key, c.v) ELSE acc)

\* C7: after load_data the mapping is a function of the file alone: empty
\* unless the file holds a JSON object, and then exactly the members whose
\* value coerces to an integer.
C7_LoadDependsOnFileOnly ==
    last.op = "load_data"
        => stock_data = IF file.kind = "object" THEN Coercible(file.entries, <<>>) ELSE <<>>

\* C8: no call raises.
C8_NeverRaises == last.raised = "none"

\* C9: check_low_items(threshold) returns, in the mapping's order, the keys
\* whose quantity is < threshold when threshold is an integer, and what
\* check_low_items(5) returns when threshold does not coerce to an integer.
C9_LowItems ==
    last.op = "check_low_items"
        => LET t == IF last.arg.k \in {"int", "big"} THEN last.arg ELSE IntV(DefaultThreshold)
           IN  (last.arg.k \in {"int", "big"} \/ PyInt(last.arg).raised # "none")
                   => /\ last.raised = "none"
                      /\ last.low = KeysOf(SelectSeq(stock_data, LAMBDA e : LessThan(e.val, t)))

\* C10: save_data, whether the write succeeds or fails, and get_qty,
\* check_low_items and print_data leave the mapping as it was.
C10_QueriesChangeNothing ==
    last.op \in {"save_data", "get_qty", "check_low_items", "print_data"}
        => stock_data = prev

\* save_data failed with an I/O error on a mapping of two items.
C10_FailedSaveOfStockedMapping ==
    /\ last.op = "save_data"
    /\ ~last.wrote
    /\ last.logged = {"error"}
    /\ Len(stock_data) = 2

====
